---- MODULE Spec2Model ----
(***************************************************************************)
(* The corpus and scheduling core of src/corpus/mod.rs: RandomCorpus and    *)
(* QueueCorpus behind the Corpus trait, driven by one caller.               *)
(*                                                                          *)
(* A Testcase is a Box<dyn Testcase>; its identity is its heap address,     *)
(* modelled as a number in Testcases.  A testcase is owned either by the    *)
(* corpus (it is in entries) or by the caller (it is not), so add(e) is     *)
(* only possible for an e the corpus does not hold.                         *)
(***************************************************************************)
EXTENDS Integers, Sequences, FiniteSets

\* ---------------------------------------------------------------- bounds
\* The driver stops adding once the corpus holds this many entries.
MaxCount == 3
\* The driver performs at most this many add calls.
MaxAdds == 3
\* The driver performs at most this many QueueCorpus::get calls.
MaxGets == 3

\* SimpleTestcase::new(filename): the testcases the driver creates, by the
\* filename each is created with. Testcase e is the e-th of them.
Names == <<"a", "b", "c", "fancyfile">>

Testcases == 1..Len(Names)

\* Testcase::get_filename
FilenameOf(e) == Names[e]

\* Result marker: no testcase (None, or no value in a Result).
NoEntry == 0

\* History marker: the call did not use the randomness source.
NoDraw == -1

VARIABLES
    kind,        \* which impl of Corpus was constructed
    entries,     \* RandomCorpus.entries: Vec<Box<dyn Testcase>>
    pos,         \* QueueCorpus.pos
    cycles,      \* QueueCorpus.cycles
    aborted,     \* the thread panicked
    ret,         \* the last call and what it returned
    pre,         \* history: entries when the last call was made
    prePos,      \* history: pos when the last call was made
    drawn,       \* history: what rand.below returned in the last call, if called
    nAdds,       \* history: number of add calls
    nRemoved,    \* history: number of remove calls that returned an entry
    gets,        \* history: results of the QueueCorpus::get calls, in order
    addAfterGet, \* history: an add call came after a get call
    cyclog,      \* history: get_cycles() after each get call, parallel to gets
    runStart,    \* history: Len(gets) at the last add or successful remove
    cc,          \* CcSpec: one run of the compiler wrapper (libafl_cc main)
    pair,        \* PairSpec: two QueueCorpus instances given the same calls
    thr,         \* RaceSpec: one QueueCorpus shared by two callers of get
    grow         \* GrowSpec: a QueueCorpus that the driver keeps feeding

vars == <<kind, entries, pos, cycles, aborted, ret, pre, prePos, drawn, nAdds, nRemoved, gets, addAfterGet,
          cyclog, runStart>>

\* The state of the other specifications; Spec leaves it alone.
others == <<cc, pair, thr, grow>>

\* What a variable holds in a specification that does not use it.
Unused == "unused"

\* ------------------------------------------------------------- Vec helpers
\* Vec::len
VecLen(v) == Len(v)

\* Vec index i (0-based) as Vec::get / get_mut sees it: NoEntry stands for None.
VecGet(v, i) == IF i < Len(v) THEN v[i + 1] ELSE NoEntry

\* Vec::remove(i) (0-based): the vector without element i. Panics when i >= len;
\* callers test VecRemovePanics first.
VecRemovePanics(v, i) == i >= Len(v)
VecRemove(v, i) == SubSeq(v, 1, i) \o SubSeq(v, i + 2, Len(v))

\* The set of testcases a vector holds.
Held(v) == { v[j] : j \in 1..Len(v) }

\* --------------------------------------------------------- randomness source
\* Rand::below(upper_bound_excl): a value in [0, bound). For bound = 0 the
\* interval is empty and the contract promises nothing: any value may come back
\* (a panic inside below ends the call the same way the unwrap below does).
Below(bound) == IF bound = 0 THEN 0..MaxCount ELSE 0..(bound - 1)

\* ------------------------------------------------------------ RandomCorpus
\* RandomCorpus::count
RandomCorpus_count(v) == VecLen(v)

\* RandomCorpus::add: push at the end.
RandomCorpus_push(v, e) == Append(v, e)

\* The scan loop of RandomCorpus::remove, from the j-th element (1-based) on:
\* i is incremented at the top of every iteration, before the comparison, so
\* when the j-th element matches i = j, and when nothing matches i = len.
RECURSIVE ScanFrom(_, _, _)
ScanFrom(v, e, j) ==
    IF j > Len(v) THEN [i |-> j - 1, found |-> FALSE]
    ELSE IF v[j] = e THEN [i |-> j, found |-> TRUE]
    ELSE ScanFrom(v, e, j + 1)

\* Mutant of Scan: i is incremented at the bottom of every iteration, after the
\* comparison, so a match at the j-th element leaves i = j - 1, its index.
RECURSIVE ScanFrom_stepsAfterTest(_, _, _)
ScanFrom_stepsAfterTest(v, e, j) ==
    IF j > Len(v) THEN [i |-> j - 1, found |-> FALSE]
    ELSE IF v[j] = e THEN [i |-> j - 1, found |-> TRUE]
    ELSE ScanFrom_stepsAfterTest(v, e, j + 1)

Scan_stepsAfterTest(v, e) == ScanFrom_stepsAfterTest(v, e, 1)

\* Mutant of Scan: found starts out true, so a scan that matches nothing
\* still reports a match.
Scan_foundStartsTrue(v, e) == [i |-> ScanFrom(v, e, 1).i, found |-> TRUE]

Scan(v, e) == ScanFrom(v, e, 1)

\* Mutant of RandomCorpus_removeResult: the element is handed back but left in
\* the vector.
RandomCorpus_removeResult_keepsElement(v, e) ==
    LET s == Scan(v, e) IN
    IF ~s.found THEN [res |-> "None", val |-> NoEntry, entries |-> v]
    ELSE IF VecRemovePanics(v, s.i) THEN [res |-> "panic", val |-> NoEntry, entries |-> v]
    ELSE [res |-> "Some", val |-> VecGet(v, s.i), entries |-> v]

\* RandomCorpus::remove as a function of the vector and the reference passed:
\* what is returned (res, val) and the vector afterwards.
RandomCorpus_removeResult(v, e) ==
    LET s == Scan(v, e) IN
    IF ~s.found THEN [res |-> "None", val |-> NoEntry, entries |-> v]
    ELSE IF VecRemovePanics(v, s.i) THEN [res |-> "panic", val |-> NoEntry, entries |-> v]
    ELSE [res |-> "Some", val |-> VecGet(v, s.i), entries |-> VecRemove(v, s.i)]

\* RandomCorpus::random_entry for a drawn id: get_mut(id).unwrap().
RandomCorpus_entryResult(v, id) ==
    LET x == VecGet(v, id) IN
    IF x = NoEntry THEN [res |-> "panic", val |-> NoEntry, err |-> ""]
    ELSE [res |-> "Ok", val |-> x, err |-> ""]

\* Mutant of RandomCorpus_draw: the bound passed to below is one too large.
RandomCorpus_draw_boundPlusOne(v) == Below(VecLen(v) + 1)

\* The ids RandomCorpus::random_entry may draw.
RandomCorpus_draw(v) == Below(VecLen(v))

\* ------------------------------------------------------------- QueueCorpus
\* QueueCorpus::count delegates.
QueueCorpus_count(v) == RandomCorpus_count(v)

\* Mutant of QueueCorpus_advance: the wrap test is > instead of >=.
QueueCorpus_advance_wrapsLate(p, c, n) ==
    LET p1 == p + 1 IN
    IF p1 > n THEN [pos |-> 0, cycles |-> c + 1]
    ELSE [pos |-> p1, cycles |-> c]

\* Mutant of QueueCorpus_advance: the wrap test comes before the increment.
QueueCorpus_advance_testsBeforeStep(p, c, n) ==
    IF p >= n THEN [pos |-> 0, cycles |-> c + 1]
    ELSE [pos |-> p + 1, cycles |-> c]

\* Mutant of QueueCorpus_advance: the wrap forgets to count the cycle.
QueueCorpus_advance_cycleNotCounted(p, c, n) ==
    LET p1 == p + 1 IN
    IF p1 >= n THEN [pos |-> 0, cycles |-> c]
    ELSE [pos |-> p1, cycles |-> c]

\* QueueCorpus::get, the cursor step for count() > 0: advance, then wrap.
QueueCorpus_advance(p, c, n) ==
    LET p1 == p + 1 IN
    IF p1 >= n THEN [pos |-> 0, cycles |-> c + 1]
    ELSE [pos |-> p1, cycles |-> c]

\* Mutant of QueueCorpus_getResult: the entry is read at the cursor as it was
\* before the advance.
QueueCorpus_getResult_readsBeforeAdvance(v, p, c) ==
    IF QueueCorpus_count(v) = 0
    THEN [res |-> "Err", val |-> NoEntry, err |-> "Unknown", pos |-> p, cycles |-> c]
    ELSE LET a == QueueCorpus_advance(p, c, QueueCorpus_count(v))
             x == VecGet(v, p)
         IN IF x = NoEntry
            THEN [res |-> "panic", val |-> NoEntry, err |-> "", pos |-> a.pos, cycles |-> a.cycles]
            ELSE [res |-> "Ok", val |-> x, err |-> "", pos |-> a.pos, cycles |-> a.cycles]

\* Mutant of QueueCorpus_getResult: the cursor is advanced before the empty
\* check.
QueueCorpus_getResult_advancesFirst(v, p, c) ==
    LET a == QueueCorpus_advance(p, c, QueueCorpus_count(v)) IN
    IF QueueCorpus_count(v) = 0
    THEN [res |-> "Err", val |-> NoEntry, err |-> "Unknown", pos |-> a.pos, cycles |-> a.cycles]
    ELSE LET x == VecGet(v, a.pos)
         IN IF x = NoEntry
            THEN [res |-> "panic", val |-> NoEntry, err |-> "", pos |-> a.pos, cycles |-> a.cycles]
            ELSE [res |-> "Ok", val |-> x, err |-> "", pos |-> a.pos, cycles |-> a.cycles]

\* QueueCorpus::get: result and scheduling state afterwards.
QueueCorpus_getResult(v, p, c) ==
    IF QueueCorpus_count(v) = 0
    THEN [res |-> "Err", val |-> NoEntry, err |-> "Unknown", pos |-> p, cycles |-> c]
    ELSE LET a == QueueCorpus_advance(p, c, QueueCorpus_count(v))
             x == VecGet(v, a.pos)
         IN IF x = NoEntry
            THEN [res |-> "panic", val |-> NoEntry, err |-> "", pos |-> a.pos, cycles |-> a.cycles]
            ELSE [res |-> "Ok", val |-> x, err |-> "", pos |-> a.pos, cycles |-> a.cycles]

\* ------------------------------------------------------------------ state
Call(op, arg, res, val, err) ==
    [op |-> op, arg |-> arg, res |-> res, val |-> val, err |-> err]

\* RandomCorpus::new / QueueCorpus::new
Init ==
    /\ cc = Unused /\ pair = Unused /\ thr = Unused /\ grow = Unused
    /\ kind \in {"RandomCorpus", "QueueCorpus"}
    /\ entries = <<>>
    /\ pos = 0
    /\ cycles = 0
    /\ aborted = FALSE
    /\ ret = Call("new", NoEntry, "unit", NoEntry, "")
    /\ pre = <<>>
    /\ prePos = 0
    /\ drawn = NoDraw
    /\ nAdds = 0
    /\ nRemoved = 0
    /\ gets = <<>>
    /\ addAfterGet = FALSE
    /\ cyclog = <<>>
    /\ runStart = 0

\* The driver can call into the corpus: it has not panicked.
Running(k) == kind = k /\ ~aborted

\* add, as both impls do it (QueueCorpus::add delegates).
DoAdd(e) ==
    /\ e \notin Held(entries)
    /\ VecLen(entries) < MaxCount
    /\ nAdds < MaxAdds
    /\ entries' = RandomCorpus_push(entries, e)
    /\ ret' = Call("add", e, "unit", NoEntry, "")
    /\ pre' = entries
    /\ prePos' = pos
    /\ drawn' = NoDraw
    /\ nAdds' = nAdds + 1
    /\ addAfterGet' = (addAfterGet \/ Len(gets) > 0)
    /\ runStart' = Len(gets)
    /\ UNCHANGED <<kind, pos, cycles, aborted, nRemoved, gets, cyclog>>
    /\ UNCHANGED others

\* remove, as both impls do it (QueueCorpus::remove delegates).
DoRemove(e) ==
    LET r == RandomCorpus_removeResult(entries, e) IN
    /\ entries' = r.entries
    /\ aborted' = (r.res = "panic")
    /\ ret' = Call("remove", e, r.res, r.val, "")
    /\ pre' = entries
    /\ prePos' = pos
    /\ drawn' = NoDraw
    /\ nRemoved' = IF r.res = "Some" THEN nRemoved + 1 ELSE nRemoved
    /\ runStart' = IF r.res = "Some" THEN Len(gets) ELSE runStart
    /\ UNCHANGED <<kind, pos, cycles, nAdds, gets, addAfterGet, cyclog>>
    /\ UNCHANGED others

\* random_entry, as both impls do it (QueueCorpus::random_entry delegates).
DoRandomEntry(op) ==
    \E id \in RandomCorpus_draw(entries) :
        LET r == RandomCorpus_entryResult(entries, id) IN
        /\ aborted' = (r.res = "panic")
        /\ ret' = Call(op, NoEntry, r.res, r.val, r.err)
        /\ pre' = entries
        /\ prePos' = pos
        /\ drawn' = id
        /\ UNCHANGED <<kind, entries, pos, cycles, nAdds, nRemoved, gets, addAfterGet,
                       cyclog, runStart>>
        /\ UNCHANGED others

\* count, as both impls do it (QueueCorpus::count delegates): &self, so
\* nothing but the returned length.
DoCount(n) ==
    /\ ret' = Call("count", NoEntry, "usize", n, "")
    /\ pre' = entries
    /\ prePos' = pos
    /\ drawn' = NoDraw
    /\ UNCHANGED <<kind, entries, pos, cycles, aborted, nAdds, nRemoved, gets,
                   addAfterGet, cyclog, runStart>>
    /\ UNCHANGED others

RandomCorpus_count_call == Running("RandomCorpus") /\ DoCount(RandomCorpus_count(entries))

QueueCorpus_count_call == Running("QueueCorpus") /\ DoCount(QueueCorpus_count(entries))

RandomCorpus_add(e) == Running("RandomCorpus") /\ DoAdd(e)

RandomCorpus_remove(e) == Running("RandomCorpus") /\ DoRemove(e)

RandomCorpus_random_entry == Running("RandomCorpus") /\ DoRandomEntry("random_entry")

\* Mutant of RandomCorpus_get: a policy of its own, always the first entry,
\* whatever is drawn.
RandomCorpus_get_firstEntry ==
    /\ Running("RandomCorpus")
    /\ \E id \in RandomCorpus_draw(entries) :
        LET r == RandomCorpus_entryResult(entries, 0) IN
        /\ aborted' = (r.res = "panic")
        /\ ret' = Call("get", NoEntry, r.res, r.val, r.err)
        /\ pre' = entries
        /\ prePos' = pos
        /\ drawn' = id
        /\ UNCHANGED <<kind, entries, pos, cycles, nAdds, nRemoved, gets, addAfterGet,
                       cyclog, runStart>>
        /\ UNCHANGED others

\* RandomCorpus::get is self.random_entry().
RandomCorpus_get ==
    /\ Running("RandomCorpus")
    /\ DoRandomEntry("get")

QueueCorpus_add(e) == Running("QueueCorpus") /\ DoAdd(e)

\* Mutant of QueueCorpus_remove: the removal also rewinds the cursor.
QueueCorpus_remove_rewinds(e) ==
    /\ Running("QueueCorpus")
    /\ LET r == RandomCorpus_removeResult(entries, e) IN
        /\ entries' = r.entries
        /\ pos' = IF r.res = "Some" THEN 0 ELSE pos
        /\ aborted' = (r.res = "panic")
        /\ ret' = Call("remove", e, r.res, r.val, "")
        /\ pre' = entries
        /\ prePos' = pos
        /\ drawn' = NoDraw
        /\ nRemoved' = IF r.res = "Some" THEN nRemoved + 1 ELSE nRemoved
        /\ runStart' = IF r.res = "Some" THEN Len(gets) ELSE runStart
    /\ UNCHANGED <<kind, cycles, nAdds, gets, addAfterGet, cyclog>>
    /\ UNCHANGED others

QueueCorpus_remove(e) == Running("QueueCorpus") /\ DoRemove(e)

QueueCorpus_random_entry == Running("QueueCorpus") /\ DoRandomEntry("random_entry")

QueueCorpus_get ==
    /\ Running("QueueCorpus")
    /\ Len(gets) < MaxGets
    /\ LET r == QueueCorpus_getResult(entries, pos, cycles) IN
        /\ pos' = r.pos
        /\ cycles' = r.cycles
        /\ aborted' = (r.res = "panic")
        /\ ret' = Call("get", NoEntry, r.res, r.val, r.err)
        /\ pre' = entries
        /\ prePos' = pos
        /\ drawn' = NoDraw
        /\ gets' = IF r.res # "panic" THEN Append(gets, r.val) ELSE gets
        /\ cyclog' = IF r.res # "panic" THEN Append(cyclog, r.cycles) ELSE cyclog
    /\ UNCHANGED <<kind, entries, nAdds, nRemoved, addAfterGet, runStart>>
    /\ UNCHANGED others

Next ==
    \/ RandomCorpus_count_call
    \/ QueueCorpus_count_call
    \/ \E e \in Testcases : RandomCorpus_add(e)
    \/ \E e \in Testcases : RandomCorpus_remove(e)
    \/ RandomCorpus_random_entry
    \/ RandomCorpus_get
    \/ \E e \in Testcases : QueueCorpus_add(e)
    \/ \E e \in Testcases : QueueCorpus_remove(e)
    \/ QueueCorpus_random_entry
    \/ QueueCorpus_get

Spec == Init /\ [][Next]_<<vars, others>>

\* count() of the constructed corpus.
count == IF kind = "QueueCorpus" THEN QueueCorpus_count(entries) ELSE RandomCorpus_count(entries)

TypeOK ==
    /\ kind \in {"RandomCorpus", "QueueCorpus"}
    /\ entries \in Seq(Testcases) /\ Len(entries) <= MaxCount
    /\ pos \in 0..MaxCount
    /\ cycles \in 0..MaxGets
    /\ aborted \in BOOLEAN
    /\ nAdds \in 0..MaxAdds
    /\ nRemoved \in 0..MaxAdds
    /\ Len(gets) <= MaxGets
    /\ addAfterGet \in BOOLEAN

\* A corpus that a specification constructs and never calls.
CorpusParked ==
    /\ kind = "QueueCorpus"
    /\ entries = <<>> /\ pos = 0 /\ cycles = 0 /\ aborted = FALSE
    /\ ret = Call("new", NoEntry, "unit", NoEntry, "")
    /\ pre = <<>> /\ prePos = 0 /\ drawn = NoDraw
    /\ nAdds = 0 /\ nRemoved = 0 /\ gets = <<>> /\ addAfterGet = FALSE
    /\ cyclog = <<>> /\ runStart = 0

\* ------------------------------------------------- compiler wrapper (CcSpec)
\* fuzzers/fuzzbench/src/bin/libafl_cc.rs: one invocation of main.

\* The caller passes at most this many arguments after the program name.
MaxArgs == 2

\* Arguments a caller passes.
CcArgWords == {"--libafl", "--libafl-no-link", "-c", "foo.c"}

\* File names the wrapper executable is installed under, as characters.
CcExeNames ==
    { <<"c", "c">>, <<"C", "C">>, <<"c", "+", "+">>, <<"c", "x", "x">>,
      <<"c", "p", "p">>, <<"l", "d">>, <<"c">> }

\* The argument main always appends.
TracePcGuard == "-fsanitize-coverage=trace-pc-guard"

\* Sequences over S of length at most n.
SeqsUpTo(S, n) == UNION { [1..k -> S] : k \in 0..n }

\* str::to_lowercase on the characters used here.
ToLower(ch) ==
    IF ch = "C" THEN "c" ELSE IF ch = "X" THEN "x" ELSE IF ch = "P" THEN "p" ELSE ch

\* wrapper_name[wrapper_name.len()-2..].to_lowercase(): <<>> stands for the
\* panic of the slice when the name is shorter than two characters.
LastTwoLower(name) ==
    IF Len(name) < 2 THEN <<>>
    ELSE <<ToLower(name[Len(name) - 1]), ToLower(name[Len(name)])>>

\* The match on the last two characters: "false" or "true" for is_cpp, or
\* "panic".
IsCpp(name) ==
    LET t == LastTwoLower(name) IN
    IF t = <<"c", "c">> THEN "false"
    ELSE IF t \in { <<"+", "+">>, <<"p", "p">>, <<"x", "x">> } THEN "true"
    ELSE "panic"

\* Mutant of Main_push: the argument is appended only when an opt-in flag is
\* among the arguments.
Main_push_onlyWithFlag(args) ==
    IF \E i \in 2..Len(args) : args[i] \in {"--libafl", "--libafl-no-link"}
    THEN Append(args, TracePcGuard)
    ELSE args

\* args.push("-fsanitize-coverage=trace-pc-guard".into())
Main_push(args) == Append(args, TracePcGuard)

\* The elements of a sequence that are not in S, in order.
RECURSIVE Without(_, _)
Without(q, S) ==
    IF q = <<>> THEN <<>>
    ELSE IF Head(q) \in S THEN Without(Tail(q), S)
    ELSE <<Head(q)>> \o Without(Tail(q), S)

\* What the builder chain of main asks ClangWrapper to add when it instruments:
\* the passes and their arguments, then the runtime library when linking.
CcPassArgs ==
    <<"pass:AutoTokens", "pass:CmpLogCtxLogging", "pass:CmpLogRtn",
      "-cmplog_routines_ctx", "pass:CmpLogInstructions", "-cmplog_instructions_ctx">>

CcLinkArgs == <<"staticlib:fuzzbench">>

\* ClangWrapper with need_libafl_arg(true): the arguments handed to the
\* compiler for the argument list given to parse_args (program name first).
\* Without an opt-in flag the arguments are passed through; with one the flag
\* is consumed and the instrumentation is added.
ClangWrapper_command(args) ==
    LET user == Tail(args)
        flags == {"--libafl", "--libafl-no-link"}
        optIn == \E i \in 1..Len(user) : user[i] \in flags
        noLink == \E i \in 1..Len(user) : user[i] = "--libafl-no-link"
    IN IF ~optIn THEN user
       ELSE Without(user, flags) \o CcPassArgs \o (IF noLink THEN <<>> ELSE CcLinkArgs)

CcInit ==
    /\ CorpusParked
    /\ pair = Unused /\ thr = Unused /\ grow = Unused
    /\ \E name \in CcExeNames, user \in SeqsUpTo(CcArgWords, MaxArgs) :
         cc = [pc |-> "start", exe |-> name, user |-> user,
               args |-> <<name>> \o user, is_cpp |-> FALSE, passed |-> <<>>]

CcFrame == UNCHANGED <<vars, pair, thr, grow>>

\* else branch: panic!("LibAFL CC: No Arguments given")
Main_noArguments ==
    /\ cc.pc = "start"
    /\ ~(Len(cc.args) > 1)
    /\ cc' = [cc EXCEPT !.pc = "panicked"]
    /\ CcFrame

\* let is_cpp = match ...: the wrapper was called under a name that tells.
Main_detect ==
    /\ cc.pc = "start"
    /\ Len(cc.args) > 1
    /\ cc' = IF IsCpp(cc.exe) = "panic"
             THEN [cc EXCEPT !.pc = "panicked"]
             ELSE [cc EXCEPT !.pc = "detected", !.is_cpp = (IsCpp(cc.exe) = "true")]
    /\ CcFrame

Main_pushArg ==
    /\ cc.pc = "detected"
    /\ cc' = [cc EXCEPT !.pc = "pushed", !.args = Main_push(cc.args)]
    /\ CcFrame

\* cc.cpp(is_cpp)...parse_args(&args)...run()
Main_run ==
    /\ cc.pc = "pushed"
    /\ cc' = [cc EXCEPT !.pc = "done", !.passed = ClangWrapper_command(cc.args)]
    /\ CcFrame

CcNext ==
    \/ Main_noArguments
    \/ Main_detect
    \/ Main_pushArg
    \/ Main_run

CcSpec == CcInit /\ [][CcNext]_<<vars, others>>

\* The caller passed neither --libafl nor --libafl-no-link.
CcNoOptIn == \A i \in 1..Len(cc.user) : cc.user[i] \notin {"--libafl", "--libafl-no-link"}

\* ------------------------------------- two QueueCorpus instances (PairSpec)
\* Two QueueCorpus instances, each with a randomness source of its own, are
\* given the same calls. An instance is [entries, pos, cycles, aborted].

\* QueueCorpus::new
QueueCorpus_new == [entries |-> <<>>, pos |-> 0, cycles |-> 0, aborted |-> FALSE]

\* QueueCorpus::add on an instance.
Instance_add(q, e) ==
    [q |-> [q EXCEPT !.entries = RandomCorpus_push(q.entries, e)],
     r |-> [res |-> "unit", val |-> NoEntry]]

\* QueueCorpus::remove on an instance.
Instance_remove(q, e) ==
    LET r == RandomCorpus_removeResult(q.entries, e) IN
    [q |-> [q EXCEPT !.entries = r.entries, !.aborted = (r.res = "panic")],
     r |-> [res |-> r.res, val |-> r.val]]

\* Mutant of Instance_random_entry: the drawn id also becomes the cursor.
Instance_random_entry_movesCursor(q, id) ==
    LET r == RandomCorpus_entryResult(q.entries, id) IN
    [q |-> [q EXCEPT !.pos = id, !.aborted = (r.res = "panic")],
     r |-> [res |-> r.res, val |-> r.val]]

\* QueueCorpus::random_entry on an instance whose randomness source returns id.
Instance_random_entry(q, id) ==
    LET r == RandomCorpus_entryResult(q.entries, id) IN
    [q |-> [q EXCEPT !.aborted = (r.res = "panic")],
     r |-> [res |-> r.res, val |-> r.val]]

\* QueueCorpus::get on an instance.
Instance_get(q) ==
    LET r == QueueCorpus_getResult(q.entries, q.pos, q.cycles) IN
    [q |-> [q EXCEPT !.pos = r.pos, !.cycles = r.cycles, !.aborted = (r.res = "panic")],
     r |-> [res |-> r.res, val |-> r.val]]

PairInit ==
    /\ CorpusParked
    /\ cc = Unused /\ thr = Unused /\ grow = Unused
    /\ pair = [a |-> QueueCorpus_new, b |-> QueueCorpus_new,
               op |-> "new", ra |-> [res |-> "unit", val |-> NoEntry],
               rb |-> [res |-> "unit", val |-> NoEntry],
               ngets |-> 0, differed |-> FALSE]

PairFrame == UNCHANGED <<vars, cc, thr, grow>>

\* Both drivers can call: neither instance has panicked.
PairRunning == ~pair.a.aborted /\ ~pair.b.aborted

\* The same call was made on both instances, with outcomes oa and ob.
PairCalled(op, oa, ob, ngets, differed) ==
    pair' = [a |-> oa.q, b |-> ob.q, op |-> op, ra |-> oa.r, rb |-> ob.r,
             ngets |-> ngets, differed |-> differed]

Pair_add(e) ==
    /\ PairRunning
    /\ e \notin Held(pair.a.entries)
    /\ VecLen(pair.a.entries) < MaxCount
    /\ PairCalled("add", Instance_add(pair.a, e), Instance_add(pair.b, e),
                  pair.ngets, pair.differed)
    /\ PairFrame

Pair_remove(e) ==
    /\ PairRunning
    /\ PairCalled("remove", Instance_remove(pair.a, e), Instance_remove(pair.b, e),
                  pair.ngets, pair.differed)
    /\ PairFrame

\* Each instance draws from its own randomness source.
Pair_random_entry ==
    /\ PairRunning
    /\ \E ida \in RandomCorpus_draw(pair.a.entries), idb \in RandomCorpus_draw(pair.b.entries) :
         PairCalled("random_entry", Instance_random_entry(pair.a, ida),
                    Instance_random_entry(pair.b, idb),
                    pair.ngets, pair.differed \/ ida # idb)
    /\ PairFrame

Pair_get ==
    /\ PairRunning
    /\ pair.ngets < MaxGets
    /\ PairCalled("get", Instance_get(pair.a), Instance_get(pair.b),
                  pair.ngets + 1, pair.differed)
    /\ PairFrame

PairNext ==
    \/ \E e \in Testcases : Pair_add(e)
    \/ \E e \in Testcases : Pair_remove(e)
    \/ Pair_random_entry
    \/ Pair_get

PairSpec == PairInit /\ [][PairNext]_<<vars, others>>

\* ------------------------------ two callers of one QueueCorpus (RaceSpec)
\* Two callers run QueueCorpus::get on one corpus with no lock around the
\* call, one memory access at a time. The accesses race, so a caller that
\* reads self.pos after writing it gets either what memory holds or what it
\* wrote itself (the value may still be in a register).

Callers == {1, 2}

OtherCaller(t) == 3 - t

\* Mutant of Get_wraps: the test is > instead of >=.
Get_wraps_late(p, n) == p > n

\* if self.pos >= self.count()
Get_wraps(p, n) == p >= n

\* What a read of self.pos by caller t can yield.
PosSeenBy(t) == {thr.pos, thr.c[t].reg}

\* A caller between calls.
CallerIdle == [pc |-> "idle", reg |-> 0, creg |-> 0, res |-> "none", val |-> NoEntry]

\* A corpus holding n entries after k get() calls, and two callers about to
\* call get().
RaceInit ==
    /\ CorpusParked
    /\ cc = Unused /\ pair = Unused /\ grow = Unused
    /\ \E n \in 0..MaxCount : \E k \in 0..(IF n = 0 THEN 0 ELSE n - 1) :
         thr = [entries |-> [j \in 1..n |-> j], pos |-> k, cycles |-> 0,
                c |-> [t \in Callers |-> CallerIdle],
                serial |-> [pos |-> k, cycles |-> 0],
                started |-> 0, overlapped |-> FALSE, oob |-> FALSE]

RaceFrame == UNCHANGED <<vars, cc, pair, grow>>

\* Caller t enters get().
Get_call(t) ==
    /\ thr.c[t].pc = "idle"
    /\ thr.started < MaxGets
    /\ thr' = [thr EXCEPT !.c[t].pc = "check",
                          !.started = @ + 1,
                          !.overlapped = @ \/ thr.c[OtherCaller(t)].pc \notin {"idle", "dead"}]
    /\ RaceFrame

\* if self.count() == 0 { return Err(Error::Unknown) }
Get_checkEmpty(t) ==
    /\ thr.c[t].pc = "check"
    /\ thr' = IF QueueCorpus_count(thr.entries) = 0
              THEN [thr EXCEPT !.c[t].pc = "idle", !.c[t].res = "Err", !.c[t].val = NoEntry]
              ELSE [thr EXCEPT !.c[t].pc = "load"]
    /\ RaceFrame

\* self.pos + 1: the read of self.pos.
Get_loadPos(t) ==
    /\ thr.c[t].pc = "load"
    /\ thr' = [thr EXCEPT !.c[t].pc = "store", !.c[t].reg = thr.pos]
    /\ RaceFrame

\* self.pos = ...: the write.
Get_storePos(t) ==
    /\ thr.c[t].pc = "store"
    /\ thr' = [thr EXCEPT !.c[t].pc = "test", !.pos = thr.c[t].reg + 1,
                          !.c[t].reg = thr.c[t].reg + 1]
    /\ RaceFrame

\* if self.pos >= self.count()
Get_test(t) ==
    /\ thr.c[t].pc = "test"
    /\ \E p \in PosSeenBy(t) :
         thr' = [thr EXCEPT !.c[t].pc =
                     IF Get_wraps(p, QueueCorpus_count(thr.entries))
                     THEN "loadCycles" ELSE "read",
                  !.c[t].reg = p]
    /\ RaceFrame

\* self.cycles + 1: the read of self.cycles.
Get_loadCycles(t) ==
    /\ thr.c[t].pc = "loadCycles"
    /\ thr' = [thr EXCEPT !.c[t].pc = "storeCycles", !.c[t].creg = thr.cycles]
    /\ RaceFrame

\* self.cycles = ...: the write.
Get_storeCycles(t) ==
    /\ thr.c[t].pc = "storeCycles"
    /\ thr' = [thr EXCEPT !.c[t].pc = "reset", !.cycles = thr.c[t].creg + 1]
    /\ RaceFrame

\* self.pos = 0
Get_resetPos(t) ==
    /\ thr.c[t].pc = "reset"
    /\ thr' = [thr EXCEPT !.c[t].pc = "read", !.pos = 0, !.c[t].reg = 0]
    /\ RaceFrame

\* Ok(self.random_corpus.entries.get_mut(self.pos).unwrap()): the call ends,
\* with the entry or with the caller's thread panicking.
Get_read(t) ==
    /\ thr.c[t].pc = "read"
    /\ \E p \in PosSeenBy(t) :
         LET x == VecGet(thr.entries, p)
             s == QueueCorpus_advance(thr.serial.pos, thr.serial.cycles,
                                      QueueCorpus_count(thr.entries))
         IN thr' = [thr EXCEPT !.c[t].pc = IF x = NoEntry THEN "dead" ELSE "idle",
                               !.c[t].res = IF x = NoEntry THEN "panic" ELSE "Ok",
                               !.c[t].val = x,
                               !.c[t].reg = p,
                               !.oob = @ \/ p >= QueueCorpus_count(thr.entries),
                               !.serial = s]
    /\ RaceFrame

RaceNext ==
    \E t \in Callers :
        \/ Get_call(t)
        \/ Get_checkEmpty(t)
        \/ Get_loadPos(t)
        \/ Get_storePos(t)
        \/ Get_test(t)
        \/ Get_loadCycles(t)
        \/ Get_storeCycles(t)
        \/ Get_resetPos(t)
        \/ Get_read(t)

RaceSpec == RaceInit /\ [][RaceNext]_<<vars, others>>

\* No caller is inside get().
RaceQuiet == \A t \in Callers : thr.c[t].pc \in {"idle", "dead"}

\* The calls made so far did not leave pos and cycles where that many calls
\* made one after the other leave them: an advance or a cycles increment of
\* one caller is lost.
RaceLostUpdate ==
    /\ RaceQuiet
    /\ <<thr.pos, thr.cycles>> # <<thr.serial.pos, thr.serial.cycles>>

\* --------------------------------------- a corpus that grows (GrowSpec)
\* A QueueCorpus whose driver calls add, get and random_entry and never
\* remove, with no limit on the number of calls or on the size of the corpus.
\* Entries are known by their index, which never changes without removals.
\* The entries at indices below MaxTracked are followed one by one; of the
\* others only the number matters, so an entry the cursor has passed whose
\* index is MaxTracked or more is forgotten: pos and count both go down by
\* one, which changes neither the wrap test of get nor any index below
\* MaxTracked.

\* The entries followed are those at indices 0..MaxTracked-1.
MaxTracked == 3
\* The driver adds only while fewer than this many entries are at or after
\* the cursor.
MaxAhead == 3

\* The index reported for an entry that is not followed.
Untracked == MaxTracked

\* A vector of n entries, the one at index i being testcase i + 1.
VecOfCount(n) == [j \in 1..n |-> j]

\* Forget one passed entry that is not followed.
GrowForget(g) ==
    IF g.pos > MaxTracked
    THEN [g EXCEPT !.pos = g.pos - 1, !.count = g.count - 1]
    ELSE g

GrowInit ==
    /\ CorpusParked
    /\ cc = Unused /\ pair = Unused /\ thr = Unused
    /\ grow = [pos |-> 0, count |-> 0, op |-> "new", idx |-> Untracked,
               returned |-> {}, grew |-> FALSE, aborted |-> FALSE]

GrowFrame == UNCHANGED <<vars, cc, pair, thr>>

\* QueueCorpus::add
Grow_add ==
    /\ ~grow.aborted
    /\ grow.count - grow.pos < MaxAhead
    /\ grow' = [grow EXCEPT !.count = VecLen(RandomCorpus_push(VecOfCount(grow.count), grow.count + 1)),
                            !.op = "add", !.idx = Untracked,
                            !.grew = @ \/ grow.returned # {}]
    /\ GrowFrame

\* QueueCorpus::get
Grow_get ==
    /\ ~grow.aborted
    /\ LET r == QueueCorpus_getResult(VecOfCount(grow.count), grow.pos, 0)
           i == IF r.res = "Ok" /\ r.val - 1 < MaxTracked THEN r.val - 1 ELSE Untracked
       IN grow' = GrowForget([grow EXCEPT !.pos = r.pos,
                                          !.op = IF r.res = "Ok" THEN "get" ELSE "get" \o r.res,
                                          !.idx = i,
                                          !.returned = IF i < MaxTracked THEN @ \cup {i} ELSE @,
                                          !.aborted = (r.res = "panic")])
    /\ GrowFrame

\* QueueCorpus::random_entry
Grow_random_entry ==
    /\ ~grow.aborted
    /\ \E id \in RandomCorpus_draw(VecOfCount(grow.count)) :
         LET r == RandomCorpus_entryResult(VecOfCount(grow.count), id) IN
         grow' = [grow EXCEPT !.op = "random_entry",
                              !.idx = IF r.res = "Ok" /\ id < MaxTracked THEN id ELSE Untracked,
                              !.aborted = (r.res = "panic")]
    /\ GrowFrame

GrowNext ==
    \/ Grow_add
    \/ Grow_get
    \/ Grow_random_entry

\* The driver's loop calls get() in every iteration: get() keeps being called.
GrowSpec ==
    /\ GrowInit
    /\ [][GrowNext]_<<vars, others>>
    /\ WF_<<vars, others>>(Grow_get)

\* The entry at index i is held.
GrowHeld(i) == grow.count > i

\* The last call was a get() that returned the entry at index i.
GrowReturns(i) == grow.op = "get" /\ grow.idx = i

\* ------------------------------------------------------------------ claims

\* C1: for RandomCorpus and QueueCorpus, after any sequence of add and remove
\* calls on a new corpus, count() equals the number of add calls minus the
\* number of remove calls that returned an entry, and equals the number of
\* testcases the corpus holds.
C1_CountIsAddsMinusRemoves ==
    /\ count = nAdds - nRemoved
    /\ count = Cardinality(Held(entries))

\* C1 witness: a corpus of either kind after several adds and a remove that
\* returned an entry.
C1_Witness ==
    /\ nAdds = MaxAdds
    /\ nRemoved >= 1
    /\ ret.op = "remove" /\ ret.res = "Some"
    /\ count >= 1

\* C2 (as claimed): remove(e) of a held entry e returns exactly e, decreases
\* count() by exactly 1, and afterwards e is no longer held while every other
\* entry still is.
C2_RemoveReturnsThatEntry ==
    (ret.op = "remove" /\ ret.arg \in Held(pre)) =>
        /\ ret.res = "Some"
        /\ ret.val = ret.arg
        /\ count = Len(pre) - 1
        /\ Held(entries) = Held(pre) \ {ret.arg}

\* C3 (as claimed): random_entry() and get() on a corpus with count() = 0
\* return an EmptyCorpus error: no abort, no entry.
C3_EmptySelectionIsError ==
    (ret.op \in {"random_entry", "get"} /\ Len(pre) = 0) =>
        /\ ret.res = "Err"
        /\ ret.err = "EmptyCorpus"
        /\ ~aborted

\* C4: remove(e) of an entry the corpus does not hold (never added, or removed
\* before) returns None without aborting, and leaves count() and the stored
\* sequence unchanged.
C4_RemoveAbsentIsNone ==
    (ret.op = "remove" /\ ret.arg \notin Held(pre)) =>
        /\ ret.res = "None"
        /\ ~aborted
        /\ entries = pre
        /\ count = Len(pre)

\* C4 witness: a remove of an entry that is not held, on a non-empty corpus
\* from which an entry was removed before, returned None.
C4_Witness ==
    /\ ret.op = "remove" /\ ret.arg \notin Held(pre)
    /\ ret.res = "None"
    /\ Len(pre) >= 1
    /\ nRemoved >= 1

\* C5 (as claimed): in every reachable QueueCorpus state, count() > 0 implies
\* 0 <= pos < count().
C5_PosInRange ==
    (kind = "QueueCorpus" /\ count > 0) => (0 <= pos /\ pos < count)

\* C6 (as claimed): no sequence of add, remove, random_entry and get calls on
\* a RandomCorpus or QueueCorpus reaches an abort.
C6_NeverAborts == ~aborted

\* C7: on a QueueCorpus holding exactly one entry every get() returns that
\* entry and increments cycles by 1; and after adding one testcase named
\* "fancyfile" to a new QueueCorpus, two get() calls both return filename
\* "fancyfile" and get_cycles() is 2.
C7_SingleEntryGet ==
    /\ [][ (kind = "QueueCorpus" /\ ret'.op = "get" /\ count = 1) =>
              /\ ret'.res = "Ok"
              /\ ret'.val = entries[1]
              /\ cycles' = cycles + 1
              /\ entries' = entries ]_vars
    /\ [] ( ( /\ kind = "QueueCorpus"
              /\ nAdds = 1 /\ nRemoved = 0 /\ ~addAfterGet
              /\ count = 1 /\ FilenameOf(entries[1]) = "fancyfile"
              /\ Len(gets) = 2 )
            => /\ \A k \in 1..2 : gets[k] \in Testcases /\ FilenameOf(gets[k]) = "fancyfile"
               /\ cycles = 2 )

\* C7 witness: the second get() after the single add of "fancyfile".
C7_Witness ==
    /\ kind = "QueueCorpus"
    /\ nAdds = 1 /\ nRemoved = 0 /\ ~addAfterGet
    /\ entries = <<4>> /\ FilenameOf(4) = "fancyfile"
    /\ ret.op = "get" /\ ret.res = "Ok"
    /\ Len(gets) = 2

\* C8: on a new QueueCorpus to which N >= 2 entries were added, then read with
\* get() and nothing removed, the k-th get() call returns the entry at index
\* k mod N; for entries "a", "b", "c" the first three get() calls return "b",
\* "c", "a".
C8_KthGetIsKModN ==
    (kind = "QueueCorpus" /\ nRemoved = 0 /\ ~addAfterGet /\ count >= 2) =>
        /\ ~(aborted /\ ret.op = "get")
        /\ \A k \in 1..Len(gets) : gets[k] = entries[(k % count) + 1]
        /\ ( /\ count = 3 /\ Len(gets) >= 3
             /\ <<FilenameOf(entries[1]), FilenameOf(entries[2]), FilenameOf(entries[3])>>
                    = <<"a", "b", "c">> )
           => /\ \A k \in 1..3 : gets[k] \in Testcases
              /\ <<FilenameOf(gets[1]), FilenameOf(gets[2]), FilenameOf(gets[3])>>
                    = <<"b", "c", "a">>

\* C8 witness: "a", "b", "c" added in order, then three get() calls.
C8_Witness ==
    /\ kind = "QueueCorpus" /\ nRemoved = 0 /\ ~addAfterGet
    /\ entries = <<1, 2, 3>>
    /\ ret.op = "get" /\ ret.res = "Ok"
    /\ Len(gets) = 3

\* C9: get_cycles() never decreases; a get() call increases it by exactly 1
\* if and only if that call wraps the cursor (pos + 1 >= count(), pos reset to
\* 0); a get() that does not wrap, and every other operation, leaves it
\* unchanged.
C9_CyclesStepOnWrap ==
    [][ LET wraps == /\ kind = "QueueCorpus" /\ ret'.op = "get"
                     /\ count > 0 /\ pos + 1 >= count
        IN /\ cycles' >= cycles
           /\ wraps => (cycles' = cycles + 1 /\ pos' = 0)
           /\ ~wraps => cycles' = cycles ]_vars

\* C9 witness: a get() that did not wrap, after an earlier one that did.
C9_Witness ==
    /\ kind = "QueueCorpus"
    /\ ret.op = "get" /\ ret.res = "Ok"
    /\ pos > 0
    /\ cycles >= 1

\* C10: with below(bound) in [0, bound), every random_entry() call on a
\* non-empty RandomCorpus, after any sequence of add and remove calls, returns
\* an entry the corpus currently holds.
C10_RandomEntryIsHeld ==
    (ret.op = "random_entry" /\ Len(pre) > 0) =>
        /\ ret.res = "Ok"
        /\ ~aborted
        /\ ret.val \in Held(entries)

\* C10 witness: random_entry() returned an entry of a RandomCorpus from which
\* an entry had been removed.
C10_Witness ==
    /\ kind = "RandomCorpus"
    /\ ret.op = "random_entry" /\ ret.res = "Ok"
    /\ nRemoved >= 1
    /\ count >= 2

\* C12: from any reachable QueueCorpus state with N = count() > 0, N
\* consecutive get() calls with no add or remove in between return every held
\* entry exactly once and increase cycles by exactly 1.
C12_FullPassIsOneCycle ==
    (kind = "QueueCorpus" /\ count > 0) =>
        \A i \in runStart..(Len(gets) - count) :
            /\ { gets[k] : k \in (i + 1)..(i + count) } = Held(entries)
            /\ cyclog[i + count] = (IF i = 0 THEN 0 ELSE cyclog[i]) + 1

\* C12 witness: two consecutive get() calls on a QueueCorpus that holds two
\* entries after a removal, with earlier get() calls before the removal.
C12_Witness ==
    /\ kind = "QueueCorpus"
    /\ count = 2
    /\ nRemoved >= 1
    /\ Len(gets) - runStart = 2
    /\ runStart >= 1
    /\ cyclog[runStart] = cyclog[Len(gets)] - 1

C15_OnlyGetMovesCursor ==
    [][ kind = "QueueCorpus" =>
          /\ (ret'.op \in {"add", "remove", "random_entry", "count"})
                => (pos' = pos /\ cycles' = cycles)
          /\ (pos' # pos \/ cycles' # cycles) => ret'.op = "get" ]_vars

\* C15 witness: a remove on a QueueCorpus detached an entry while the cursor
\* was past the start, and the cursor is where it was.
C15_Witness ==
    /\ kind = "QueueCorpus"
    /\ ret.op = "remove" /\ ret.res = "Some"
    /\ prePos >= 1 /\ pos = prePos
    /\ cycles >= 1

\* C17: RandomCorpus::get is an alias of random_entry: for the same corpus
\* state and the same value drawn from the randomness source both return the
\* same entry, the one stored at the drawn index, and neither changes count()
\* or the stored sequence.
C17_GetIsRandomEntry ==
    (kind = "RandomCorpus" /\ ret.op \in {"get", "random_entry"} /\ Len(pre) > 0) =>
        /\ ret.res = "Ok"
        /\ ret.val = VecGet(pre, drawn)
        /\ entries = pre
        /\ count = Len(pre)

\* C17 witness: RandomCorpus::get returned the entry at a drawn index other
\* than the first.
C17_Witness ==
    /\ kind = "RandomCorpus"
    /\ ret.op = "get" /\ ret.res = "Ok"
    /\ drawn >= 1
    /\ count >= 2

\* C19: immediately after every successful QueueCorpus::get, 0 <= pos <
\* count() and the returned entry is the one stored at index pos, whatever
\* came before, also a removal that left pos at or past the end; and get() on
\* a non-empty QueueCorpus is successful.
C19_GetRevalidatesCursor ==
    (kind = "QueueCorpus" /\ ret.op = "get") =>
        /\ Len(pre) > 0 => ret.res = "Ok"
        /\ ret.res = "Ok" =>
              /\ 0 <= pos /\ pos < count
              /\ ret.val = VecGet(entries, pos)

\* C19 witness: a successful get() that started with the cursor at or past
\* the end of the corpus.
C19_Witness ==
    /\ kind = "QueueCorpus"
    /\ ret.op = "get" /\ ret.res = "Ok"
    /\ prePos >= Len(pre)
    /\ nRemoved >= 1

\* C20: a QueueCorpus::get that fails because the corpus is empty leaves pos,
\* cycles and the stored entries unchanged.
C20_FailedGetChangesNothing ==
    [][ (kind = "QueueCorpus" /\ ret'.op = "get" /\ count = 0) =>
          /\ ret'.res = "Err"
          /\ pos' = pos /\ cycles' = cycles /\ entries' = entries ]_vars

\* C20 witness: get() on an empty QueueCorpus returned an error.
C20_Witness ==
    /\ kind = "QueueCorpus"
    /\ ret.op = "get" /\ ret.res = "Err"
    /\ count = 0

\* C13 (as claimed): invoked without --libafl / --libafl-no-link the wrapper
\* hands the underlying compiler the caller's argument list, with no
\* instrumentation argument added.
C13_PassthroughUnchanged ==
    (cc.pc = "done" /\ CcNoOptIn) => cc.passed = cc.user

\* C13 (amended): invoked without --libafl / --libafl-no-link the wrapper
\* hands the underlying compiler the caller's argument list followed by
\* -fsanitize-coverage=trace-pc-guard, and nothing else.
C13_PassthroughPlusTracePcGuard ==
    (cc.pc = "done" /\ CcNoOptIn) => cc.passed = cc.user \o <<TracePcGuard>>

\* C13 witness: the wrapper ran the compiler for "-c foo.c".
C13_Witness ==
    /\ cc.pc = "done"
    /\ cc.user = <<"-c", "foo.c">>

\* C16: two QueueCorpus instances given the same add, remove, random_entry
\* and get calls, with randomness sources that return different values, have
\* the same pos and cycles after every call and return the same entry from
\* every get().
C16_GetIgnoresRandomness ==
    /\ pair.a.pos = pair.b.pos
    /\ pair.a.cycles = pair.b.cycles
    /\ pair.op = "get" => pair.ra = pair.rb

\* C16 witness: a get() returned an entry after the two randomness sources
\* had returned different values, and the cursor is off its initial place.
C16_Witness ==
    /\ pair.op = "get"
    /\ pair.differed
    /\ pair.ra.res = "Ok"
    /\ pair.a.pos > 0

\* C18: as long as the get() calls on a shared QueueCorpus are made one at a
\* time, no entry is read at an index >= count() and no cursor advance or
\* cycles increment is lost; with two callers interleaved access by access
\* such a state is reachable (the witness).
C18_SerialGetIsSafe ==
    ~thr.overlapped => (~thr.oob /\ ~RaceLostUpdate)

\* C18 witness: two callers overlapped inside get(); one read at an index
\* >= count() and an update of pos or cycles was lost.
C18_Witness ==
    /\ thr.overlapped
    /\ thr.oob
    /\ RaceLostUpdate

====
